---- MODULE Spec2Model ----
(***************************************************************************)
(* The Chayndrayan craft of src/unnamed/part_001 (the final version of the *)
(* class; src/main.ts and src/unnamed/part_000 hold earlier versions).     *)
(*                                                                         *)
(* Position objects live in a heap and the craft's fields initialPosition  *)
(* and currentPosition hold references, as in the source, so that          *)
(* structuredClone and in-place mutation mean what they mean there.        *)
(* move(commands) is a loop: one action starts the call, one action runs   *)
(* one iteration of the loop body, one action returns.                     *)
(***************************************************************************)
EXTENDS Integers, Sequences, FiniteSets, TLC

VARIABLES
    heap,       \* reference -> Position object (Unallocated when there is none)
    ch,         \* the craft object: its five fields
    pc,         \* "idle": no call in progress; "loop": inside move's for-of loop
    commands,   \* the argument of the move call in progress
    consumed,   \* how many elements the for-of iterator has yielded
    hist,       \* history: the craft's state at the call and after each iteration
    calls,      \* history: number of move calls started on this craft
    args,       \* history: what the caller passed to the constructor
    seenXY,     \* history: the latest horizontal value currentDirection has had
    born,       \* history: the craft's state as the constructor left it
    first       \* history: the argument of the craft's first move call, kept
                \* until its second call returns

vars == <<heap, ch, pc, commands, consumed, hist, calls, args, seenXY, born,
          first>>

----------------------------------------------------------------------------
(* Bounds of the model *)

\* every command list up to this length is tried as the argument of move
MaxLen == 1

\* move calls made on one craft
MaxCalls == 2

----------------------------------------------------------------------------
(* Types: Position, Direction, XYDirection, Commands *)

undefined == "undefined"

Pos(a, b, c) == [x |-> a, y |-> b, z |-> c]

North == "North"
South == "South"
East == "East"
West == "West"
Up == "Up"
Down == "Down"

Direction == {North, South, East, West, Up, Down}

XYDirection == Direction \ {Up, Down}

Commands == {"f", "b", "l", "r", "u", "d"}

\* The enum is erased at run time: move can be handed any string. "x" stands
\* for a symbol that is none of the six.
Symbols == Commands \cup {"x"}

----------------------------------------------------------------------------
(* JavaScript primitives the class uses *)

\* Array.prototype.includes
includes(arr, v) == \E k \in 1..Len(arr) : arr[k] = v

\* Array.prototype.indexOf: the 0-based index of the first match, or -1
indexOf(arr, v) ==
    IF includes(arr, v)
    THEN (CHOOSE k \in 1..Len(arr) :
              arr[k] = v /\ \A j \in 1..(k - 1) : arr[j] # v) - 1
    ELSE -1

\* arr[k] with a 0-based index; out of range reads undefined
at(arr, k) == IF k \in 0..(Len(arr) - 1) THEN arr[k + 1] ELSE undefined

\* the % operator: the remainder takes the sign of the dividend
rem(a, n) == IF a >= 0 THEN a % n ELSE -((-a) % n)

\* structuredClone(h[src]) stored as the new object ref
structuredClone(h, src, ref) == [h EXCEPT ![ref] = h[src]]

\* a || b
or(a, b) == IF a # undefined THEN a ELSE b

----------------------------------------------------------------------------
(* The heap: one reference per object the class ever allocates *)

Refs == {"literal93", "literal96", "input", "initial", "current"}

\* what the heap holds at a reference no object was allocated for
Unallocated == [unallocated |-> TRUE]

Origin == Pos(0, 0, 0)

\* The field initialisers, run before the constructor body.
FieldInitializers(h) ==
    [heap |-> [h EXCEPT !["literal93"] = Origin, !["literal96"] = Origin],
     ch |-> [initialPosition |-> "literal93",
             initialDirection |-> North,
             currentPosition |-> "literal96",
             currentDirection |-> North,
             lastXYDirection |-> North]]

\* Mutation: the seed is the cast alone, without the Up/Down case.
SeedLastXY_AlwaysCurrent(currentDirection) == currentDirection

\* lastXYDirection as the constructor seeds it
SeedLastXY(currentDirection) ==
    IF includes(<<Up, Down>>, currentDirection) THEN North ELSE currentDirection

\* Mutation: the constructor never assigns currentPosition and
\* currentDirection, which keep their field initialisers.
Constructor_CurrentNotAssigned(h, inputPosition, inputDirection) ==
    LET s0 == FieldInitializers(h)
        h1 == structuredClone(s0.heap, or(inputPosition, s0.ch.initialPosition),
                              "initial")
        d1 == or(inputDirection, s0.ch.initialDirection)
    IN  [heap |-> h1,
         ch |-> [initialPosition |-> "initial",
                 initialDirection |-> d1,
                 currentPosition |-> s0.ch.currentPosition,
                 currentDirection |-> s0.ch.currentDirection,
                 lastXYDirection |-> SeedLastXY(s0.ch.currentDirection)]]

\* Mutation: inputDirection is stored without the "|| this.initialDirection".
Constructor_NoDefaultDirection(h, inputPosition, inputDirection) ==
    LET s0 == FieldInitializers(h)
        h1 == structuredClone(s0.heap, or(inputPosition, s0.ch.initialPosition),
                              "initial")
        h2 == structuredClone(h1, "initial", "current")
    IN  [heap |-> h2,
         ch |-> [initialPosition |-> "initial",
                 initialDirection |-> inputDirection,
                 currentPosition |-> "current",
                 currentDirection |-> inputDirection,
                 lastXYDirection |-> SeedLastXY(inputDirection)]]

\* Mutation: neither structuredClone is made; the fields share the object
\* they were given.
Constructor_NoClone(h, inputPosition, inputDirection) ==
    LET s0 == FieldInitializers(h)
        ref == or(inputPosition, s0.ch.initialPosition)
        d1 == or(inputDirection, s0.ch.initialDirection)
    IN  [heap |-> s0.heap,
         ch |-> [initialPosition |-> ref,
                 initialDirection |-> d1,
                 currentPosition |-> ref,
                 currentDirection |-> d1,
                 lastXYDirection |-> SeedLastXY(d1)]]

\* new Chayndrayan(inputPosition, inputDirection); inputPosition is a reference
\* into h, or undefined; inputDirection is a Direction, or undefined.
Constructor(h, inputPosition, inputDirection) ==
    LET s0 == FieldInitializers(h)
        h1 == structuredClone(s0.heap, or(inputPosition, s0.ch.initialPosition),
                              "initial")
        d1 == or(inputDirection, s0.ch.initialDirection)
        h2 == structuredClone(h1, "initial", "current")
    IN  [heap |-> h2,
         ch |-> [initialPosition |-> "initial",
                 initialDirection |-> d1,
                 currentPosition |-> "current",
                 currentDirection |-> d1,
                 lastXYDirection |-> SeedLastXY(d1)]]

----------------------------------------------------------------------------
(* The body of move's loop *)

\* Mutation: the ternary's arms are exchanged.
Delta_Inverted(c) == IF c = "f" THEN -1 ELSE 1

\* let delta = c === Commands.f ? 1 : -1
Delta(c) == IF c = "f" THEN 1 ELSE -1

\* Mutation: the three-branch choice of the earlier move (src/main.ts), where
\* South and West add delta like North and East, and Down like Up.
MoveOnAxis_ThreeBranches(p, currentDirection, delta) ==
    IF currentDirection = North \/ currentDirection = South
    THEN [p EXCEPT !.y = @ + delta]
    ELSE IF currentDirection = East \/ currentDirection = West
    THEN [p EXCEPT !.x = @ + delta]
    ELSE IF currentDirection = Up \/ currentDirection = Down
    THEN [p EXCEPT !.z = @ + delta]
    ELSE p

\* Mutation: the README's "cannot move beyond the galactic boundaries" taken
\* as a floor at 0: a step that would make a coordinate negative is dropped.
MoveOnAxis_Bounded(p, currentDirection, delta) ==
    LET q == IF currentDirection = North THEN [p EXCEPT !.y = @ + delta]
             ELSE IF currentDirection = South THEN [p EXCEPT !.y = @ - delta]
             ELSE IF currentDirection = East THEN [p EXCEPT !.x = @ + delta]
             ELSE IF currentDirection = West THEN [p EXCEPT !.x = @ - delta]
             ELSE IF currentDirection = Up THEN [p EXCEPT !.z = @ + delta]
             ELSE IF currentDirection = Down THEN [p EXCEPT !.z = @ - delta]
             ELSE p
    IN  IF q.x < 0 \/ q.y < 0 \/ q.z < 0 THEN p ELSE q

\* the six-way choice of the axis and sign
MoveOnAxis(p, currentDirection, delta) ==
    IF currentDirection = North THEN [p EXCEPT !.y = @ + delta]
    ELSE IF currentDirection = South THEN [p EXCEPT !.y = @ - delta]
    ELSE IF currentDirection = East THEN [p EXCEPT !.x = @ + delta]
    ELSE IF currentDirection = West THEN [p EXCEPT !.x = @ - delta]
    ELSE IF currentDirection = Up THEN [p EXCEPT !.z = @ + delta]
    ELSE IF currentDirection = Down THEN [p EXCEPT !.z = @ - delta]
    ELSE p

\* Mutation: the axis is chosen by lastXYDirection, not by currentDirection.
ForwardBackward_OnLastXY(s, c) ==
    IF includes(<<"f", "b">>, c)
    THEN [s EXCEPT !.heap[s.ch.currentPosition] =
                       MoveOnAxis(@, s.ch.lastXYDirection, Delta(c))]
    ELSE s

\* Mutation: a move also stores the facing it moved along in lastXYDirection.
ForwardBackward_RefreshesLastXY(s, c) ==
    IF includes(<<"f", "b">>, c)
    THEN [s EXCEPT !.heap[s.ch.currentPosition] =
                       MoveOnAxis(@, s.ch.currentDirection, Delta(c)),
                   !.ch.lastXYDirection = s.ch.currentDirection]
    ELSE s

\* Mutation: the test for f and b is missing; whatever is not f counts as b.
ForwardBackward_NoGuard(s, c) ==
    [s EXCEPT !.heap[s.ch.currentPosition] =
                  MoveOnAxis(@, s.ch.currentDirection, Delta(c))]

\* handle forward and backward movement
ForwardBackward(s, c) ==
    IF includes(<<"f", "b">>, c)
    THEN [s EXCEPT !.heap[s.ch.currentPosition] =
                       MoveOnAxis(@, s.ch.currentDirection, Delta(c))]
    ELSE s

\* the array literal of the turn branch
clockWiseDirections == <<North, East, South, West>>

\* Mutation: both arms of the ternary are 1.
Step_AlwaysClockwise(c) == 1

\* let step = c === Commands.r ? 1 : -1
Step(c) == IF c = "r" THEN 1 ELSE -1

\* Mutation: the remainder is taken by length - 1.
UpdatedIndex_ShortCycle(currentIndex, step) ==
    rem(currentIndex + step + Len(clockWiseDirections),
        Len(clockWiseDirections) - 1)

\* Mutation: the array's length is not added before the remainder is taken.
UpdatedIndex_NoWrap(currentIndex, step) ==
    rem(currentIndex + step, Len(clockWiseDirections))

UpdatedIndex(currentIndex, step) ==
    rem(currentIndex + step + Len(clockWiseDirections), Len(clockWiseDirections))

\* Mutation: the index is looked up for currentDirection, not lastXYDirection.
LeftRight_FromCurrentFacing(s, c) ==
    IF includes(<<"l", "r">>, c)
    THEN LET currentIndex == indexOf(clockWiseDirections, s.ch.currentDirection)
             updatedIndex == UpdatedIndex(currentIndex, Step(c))
             turned == at(clockWiseDirections, updatedIndex)
         IN  [s EXCEPT !.ch.lastXYDirection = turned,
                       !.ch.currentDirection = turned]
    ELSE s

\* Mutation: the turn is stored in currentDirection only; lastXYDirection
\* keeps its value.
LeftRight_KeepsLastXY(s, c) ==
    IF includes(<<"l", "r">>, c)
    THEN LET currentIndex == indexOf(clockWiseDirections, s.ch.lastXYDirection)
             updatedIndex == UpdatedIndex(currentIndex, Step(c))
         IN  [s EXCEPT !.ch.currentDirection =
                           at(clockWiseDirections, updatedIndex)]
    ELSE s

\* handle left and right turn
LeftRight(s, c) ==
    IF includes(<<"l", "r">>, c)
    THEN LET currentIndex == indexOf(clockWiseDirections, s.ch.lastXYDirection)
             updatedIndex == UpdatedIndex(currentIndex, Step(c))
             turned == at(clockWiseDirections, updatedIndex)
         IN  [s EXCEPT !.ch.lastXYDirection = turned,
                       !.ch.currentDirection = turned]
    ELSE s

\* Mutation: the earlier move (src/main.ts), which has no u/d branch.
UpDown_Absent(s, c) == s

\* Mutation: the ternary's arms are exchanged.
UpDown_Exchanged(s, c) ==
    IF includes(<<"u", "d">>, c)
    THEN [s EXCEPT !.ch.currentDirection = IF c = "u" THEN Down ELSE Up]
    ELSE s

\* Mutation: the pitch is relative: u while facing Down, and d while facing
\* Up, level the craft to its last horizontal facing.
UpDown_Relative(s, c) ==
    IF includes(<<"u", "d">>, c)
    THEN [s EXCEPT !.ch.currentDirection =
             IF c = "u"
             THEN (IF s.ch.currentDirection = Down
                   THEN s.ch.lastXYDirection ELSE Up)
             ELSE (IF s.ch.currentDirection = Up
                   THEN s.ch.lastXYDirection ELSE Down)]
    ELSE s

\* handle up and down
UpDown(s, c) ==
    IF includes(<<"u", "d">>, c)
    THEN [s EXCEPT !.ch.currentDirection = IF c = "u" THEN Up ELSE Down]
    ELSE s

\* one iteration: the three ifs in the order of the source
LoopBody(s, c) == UpDown(LeftRight(ForwardBackward(s, c), c), c)

----------------------------------------------------------------------------
(* The body of the earlier move's loop (src/main.ts, the version with turns) *)

\* the three-way choice of the axis; the sign is delta's on every facing
EarlierMoveOnAxis(p, currentDirection, delta) ==
    IF currentDirection = North \/ currentDirection = South
    THEN [p EXCEPT !.y = @ + delta]
    ELSE IF currentDirection = East \/ currentDirection = West
    THEN [p EXCEPT !.x = @ + delta]
    ELSE IF currentDirection = Up \/ currentDirection = Down
    THEN [p EXCEPT !.z = @ + delta]
    ELSE p

\* handle forward and backward movement
EarlierForwardBackward(s, c) ==
    IF includes(<<"f", "b">>, c)
    THEN [s EXCEPT !.heap[s.ch.currentPosition] =
                       EarlierMoveOnAxis(@, s.ch.currentDirection, Delta(c))]
    ELSE s

\* handle left and right movement
EarlierLeftRight(s, c) ==
    IF includes(<<"l", "r">>, c)
    THEN LET currentIndex == indexOf(clockWiseDirections, s.ch.lastXYDirection)
             updatedIndex == UpdatedIndex(currentIndex, Step(c))
             turned == at(clockWiseDirections, updatedIndex)
         IN  [s EXCEPT !.ch.lastXYDirection = turned,
                       !.ch.currentDirection = turned]
    ELSE s

\* one iteration: the two ifs in the order of the source; there is no third
EarlierLoopBody(s, c) == EarlierLeftRight(EarlierForwardBackward(s, c), c)

----------------------------------------------------------------------------
(* Inputs *)

\* what callers pass as inputPosition: nothing (Unallocated: there is no such
\* object), or an object with these fields
InputPositions == {Unallocated, Pos(3, 4, 5)}

InputDirections == {undefined} \cup Direction

Seqs(S, n) == UNION {[1..k -> S] : k \in 0..n}

\* command lists of the README and of the tests, and the short lists the
\* laws of the specification are stated for
Scenarios ==
    { <<"f", "b">>, <<"b", "f">>, <<"l", "r">>, <<"r", "l">>,
      <<"u", "f">>, <<"u", "b">>, <<"d", "f">>, <<"d", "b">>, <<"b", "u">>,
      <<"u", "l">>, <<"d", "r">>, <<"x", "f">>, <<"f", "x", "r">>,
      <<"x", "u", "x", "b">>, <<"u", "f", "l">>, <<"f", "r", "f">>,
      <<"l", "l", "l", "l">>,
      <<"r", "r", "r", "r">>,
      <<"f", "r", "u", "b", "l">>,
      <<"f", "r", "f", "u", "f", "l">>,
      <<"f", "l", "f", "l", "f", "l", "f", "l">>,
      <<"f", "r", "f", "r", "f", "r", "f", "r">>,
      <<"b", "l", "b", "l", "b", "l", "b", "l">>,
      <<"b", "r", "b", "r", "b", "r", "b", "r">>,
      <<"u", "f", "d", "f">>, <<"f", "r", "r", "f">>,
      <<"u", "u">>, <<"d", "d">>, <<"u", "d">>, <<"d", "u">> }

Batches == Seqs(Symbols, MaxLen) \cup Scenarios

----------------------------------------------------------------------------
(* The state machine *)

\* seenXY while currentDirection has never been horizontal
Never == "never"

\* seenXY once currentDirection is d
Seen(d, seen) == IF d \in XYDirection THEN d ELSE seen

\* what a test reads off the craft: position, facing, last horizontal facing;
\* and, beside them, the history value seenXY
Snapshot(h, c, seen) ==
    [position |-> h[c.currentPosition],
     direction |-> c.currentDirection,
     lastXY |-> c.lastXYDirection,
     seenXY |-> seen]

Init ==
    \E p \in InputPositions, d \in InputDirections :
        LET h0 == [r \in Refs |-> IF r = "input" THEN p ELSE Unallocated]
            ref == IF p = Unallocated THEN undefined ELSE "input"
            s == Constructor(h0, ref, d)
        IN  /\ args = [inputPosition |-> ref, inputDirection |-> d,
                        inputValue |-> p]
            /\ seenXY = Seen(s.ch.currentDirection, Never)
            /\ born = Snapshot(s.heap, s.ch, Seen(s.ch.currentDirection, Never))
            /\ first = <<>>
            /\ heap = s.heap
            /\ ch = s.ch
            /\ pc = "idle"
            /\ commands = <<>>
            /\ consumed = 0
            /\ hist = <<>>
            /\ calls = 0

\* the craft is as the constructor left it: move has not been called
Fresh == calls = 0

\* Mutation: move starts over from the initial position and facing.
Call_FromInitial(cs) ==
    /\ pc = "idle"
    /\ calls < MaxCalls
    /\ pc' = "loop"
    /\ commands' = cs
    /\ consumed' = 0
    /\ heap' = [heap EXCEPT ![ch.currentPosition] = heap[ch.initialPosition]]
    /\ ch' = [ch EXCEPT !.currentDirection = ch.initialDirection,
                        !.lastXYDirection = SeedLastXY(ch.initialDirection)]
    /\ hist' = <<Snapshot(heap', ch', seenXY)>>
    /\ calls' = calls + 1
    /\ first' = IF calls = 0 THEN cs ELSE first
    /\ UNCHANGED <<args, seenXY, born>>

\* ch.move(cs) is called
Call(cs) ==
    /\ pc = "idle"
    /\ calls < MaxCalls
    /\ pc' = "loop"
    /\ commands' = cs
    /\ consumed' = 0
    /\ hist' = <<Snapshot(heap, ch, seenXY)>>
    /\ calls' = calls + 1
    /\ first' = IF calls = 0 THEN cs ELSE first
    /\ UNCHANGED <<heap, ch, args, seenXY, born>>

\* Mutation: a symbol that is none of the six is rejected (an exhaustive
\* switch that throws), so the iteration does not complete.
Iterate_RejectsUnknown ==
    /\ pc = "loop"
    /\ consumed < Len(commands)
    /\ commands[consumed + 1] \in Commands
    /\ LET s == LoopBody([heap |-> heap, ch |-> ch], commands[consumed + 1])
       IN  /\ heap' = s.heap
           /\ ch' = s.ch
           /\ seenXY' = Seen(s.ch.currentDirection, seenXY)
           /\ hist' = Append(hist, Snapshot(s.heap, s.ch, seenXY'))
    /\ consumed' = consumed + 1
    /\ UNCHANGED <<pc, commands, calls, args, born, first>>

\* for (let c of commands) { ... }: one iteration
Iterate ==
    /\ pc = "loop"
    /\ consumed < Len(commands)
    /\ LET s == LoopBody([heap |-> heap, ch |-> ch], commands[consumed + 1])
       IN  /\ heap' = s.heap
           /\ ch' = s.ch
           /\ seenXY' = Seen(s.ch.currentDirection, seenXY)
           /\ hist' = Append(hist, Snapshot(s.heap, s.ch, seenXY'))
    /\ consumed' = consumed + 1
    /\ UNCHANGED <<pc, commands, calls, args, born, first>>

\* the iterator is exhausted: move returns, its locals are gone
Return ==
    /\ pc = "loop"
    /\ consumed = Len(commands)
    /\ pc' = "idle"
    /\ commands' = <<>>
    /\ consumed' = 0
    /\ hist' = <<>>
    /\ first' = IF calls = 1 THEN first ELSE <<>>
    /\ UNCHANGED <<heap, ch, calls, args, seenXY, born>>

Next ==
    \/ \E cs \in Batches : Call(cs)
    \/ Iterate
    \/ Return

Spec == Init /\ [][Next]_vars

\* the first move call on a craft
FirstCall(cs) == Fresh /\ Call(cs)

LiveNext ==
    \/ \E cs \in Batches : FirstCall(cs)
    \/ Iterate
    \/ Return

\* One move call on each craft, under the scheduling of the source: move is
\* synchronous, so once it is called the loop runs its iterations one after
\* the other and the call returns; nothing obliges a caller to call.
LiveSpec == Init /\ [][LiveNext]_vars /\ WF_vars(Iterate) /\ WF_vars(Return)

----------------------------------------------------------------------------
(* Vocabulary of the properties *)

\* the craft as it is now
Now == Snapshot(heap, ch, seenXY)

\* the commands of the call in progress that have been applied
Applied == 1..consumed

\* the displacement the specification's table gives for forward, per facing
UnitVector(d) ==
    CASE d = North -> Pos(0, 1, 0)
      [] d = South -> Pos(0, -1, 0)
      [] d = East -> Pos(1, 0, 0)
      [] d = West -> Pos(-1, 0, 0)
      [] d = Up -> Pos(0, 0, 1)
      [] d = Down -> Pos(0, 0, -1)

Plus(p, q) == Pos(p.x + q.x, p.y + q.y, p.z + q.z)

Minus(p, q) == Pos(p.x - q.x, p.y - q.y, p.z - q.z)

\* the cycle North, East, South, West, read as a table
Clockwise(d) ==
    CASE d = North -> East
      [] d = East -> South
      [] d = South -> West
      [] d = West -> North

CounterClockwise(d) ==
    CASE d = North -> West
      [] d = West -> South
      [] d = South -> East
      [] d = East -> North

Rotated(d, c) == IF c = "r" THEN Clockwise(d) ELSE CounterClockwise(d)

Vertical == {Up, Down}

----------------------------------------------------------------------------
(* C1 *)

ExampleCommands == <<"f", "r", "u", "b", "l">>

\* position and facing before the example and after each of its commands
ExampleTrail ==
    << <<Pos(0, 0, 0), North>>,
       <<Pos(0, 1, 0), North>>,
       <<Pos(0, 1, 0), East>>,
       <<Pos(0, 1, 0), Up>>,
       <<Pos(0, 1, -1), Up>>,
       <<Pos(0, 1, -1), North>> >>

RunningExample ==
    /\ pc = "loop"
    /\ commands = ExampleCommands
    /\ hist[1].position = Pos(0, 0, 0)
    /\ hist[1].direction = North

\* C1: starting at (0,0,0) facing North, move([f,r,u,b,l]) passes through
\* exactly (0,1,0) North, (0,1,0) East, (0,1,0) Up, (0,1,-1) Up and ends at
\* (0,1,-1) facing North.
C1_ExampleTrail ==
    RunningExample =>
        /\ \A k \in 1..(consumed + 1) :
               /\ hist[k].position = ExampleTrail[k][1]
               /\ hist[k].direction = ExampleTrail[k][2]
        /\ Now.position = ExampleTrail[consumed + 1][1]
        /\ Now.direction = ExampleTrail[consumed + 1][2]

C1_Witness ==
    /\ RunningExample
    /\ consumed = Len(ExampleCommands)
    /\ Now.position = Pos(0, 1, -1)
    /\ Now.direction = North

----------------------------------------------------------------------------
(* C2 *)

\* C2: for every position and each of the six facings, one f changes the
\* position by exactly the unit vector of the facing before it (North y+1,
\* South y-1, East x+1, West x-1, Up z+1, Down z-1); the other two
\* coordinates stay.
C2_ForwardUnitVector ==
    pc = "loop" =>
        \A k \in Applied :
            commands[k] = "f" =>
                hist[k + 1].position =
                    Plus(hist[k].position, UnitVector(hist[k].direction))

C2_Witness ==
    /\ pc = "loop"
    /\ consumed >= 1
    /\ commands[consumed] = "f"
    /\ hist[consumed].direction = West
    /\ hist[consumed].position = Pos(3, 4, 5)
    /\ Now.position = Pos(2, 4, 5)

----------------------------------------------------------------------------
(* C3 *)

\* C3: for every position and each of the six facings, one b changes the
\* position by the negation of f's unit vector (North y-1, South y+1,
\* East x-1, West x+1, Up z-1, Down z+1); from (3,4,5) facing Down, [b,u]
\* ends at (3,4,6) facing Up.
C3_BackwardNegatesForward ==
    pc = "loop" =>
        /\ \A k \in Applied :
               commands[k] = "b" =>
                   hist[k + 1].position =
                       Minus(hist[k].position, UnitVector(hist[k].direction))
        /\ ( /\ commands = <<"b", "u">>
             /\ consumed = 2
             /\ hist[1].position = Pos(3, 4, 5)
             /\ hist[1].direction = Down )
           => (Now.position = Pos(3, 4, 6) /\ Now.direction = Up)

C3_Witness ==
    /\ pc = "loop"
    /\ commands = <<"b", "u">>
    /\ consumed = 2
    /\ hist[1].position = Pos(3, 4, 5)
    /\ hist[1].direction = Down
    /\ Now.position = Pos(3, 4, 6)

----------------------------------------------------------------------------
(* C4 *)

\* C4: r sets lastXYDirection to the next value clockwise in North, East,
\* South, West (West wraps to North), l to the previous one (North wraps to
\* West); the rotation starts from lastXYDirection, not from the current
\* facing, and afterwards the current facing equals the new lastXYDirection.
C4_TurnRotatesLastXY ==
    pc = "loop" =>
        \A k \in Applied :
            commands[k] \in {"l", "r"} =>
                /\ hist[k + 1].lastXY = Rotated(hist[k].lastXY, commands[k])
                /\ hist[k + 1].direction = hist[k + 1].lastXY

\* an l that wraps North to West, issued while the facing was Up
C4_Witness ==
    /\ pc = "loop"
    /\ consumed >= 1
    /\ commands[consumed] = "l"
    /\ hist[consumed].direction = Up
    /\ hist[consumed].lastXY = North
    /\ Now.lastXY = West
    /\ Now.direction = West

----------------------------------------------------------------------------
(* C5 *)

\* C5: an l or r issued while the craft faces Up or Down leaves it with the
\* horizontal facing it last had, rotated one step in the commanded
\* direction; after any l or r the facing is never Up or Down.
C5_TurnLeavesVertical ==
    pc = "loop" =>
        \A k \in Applied :
            commands[k] \in {"l", "r"} =>
                /\ hist[k + 1].direction \in XYDirection
                /\ (hist[k].direction \in Vertical /\ hist[k].seenXY # Never) =>
                       hist[k + 1].direction =
                           Rotated(hist[k].seenXY, commands[k])

\* East, then u, then l gives North
C5_Witness ==
    /\ pc = "loop"
    /\ consumed >= 2
    /\ commands[consumed] = "l"
    /\ commands[consumed - 1] = "u"
    /\ hist[consumed - 1].direction = East
    /\ hist[consumed].direction = Up
    /\ hist[consumed].seenXY = East
    /\ Now.direction = North

----------------------------------------------------------------------------
(* C6 *)

\* C6: u sets the facing to Up and d sets it to Down whatever it was; neither
\* changes the position, neither changes lastXYDirection.
C6_PitchOverwritesFacing ==
    pc = "loop" =>
        \A k \in Applied :
            commands[k] \in {"u", "d"} =>
                /\ hist[k + 1].direction = (IF commands[k] = "u" THEN Up ELSE Down)
                /\ hist[k + 1].position = hist[k].position
                /\ hist[k + 1].lastXY = hist[k].lastXY

\* a d issued while facing Up, with a last horizontal facing other than the
\* default
C6_Witness ==
    /\ pc = "loop"
    /\ consumed >= 1
    /\ commands[consumed] = "d"
    /\ hist[consumed].direction = Up
    /\ hist[consumed].lastXY = South
    /\ Now.direction = Down
    /\ Now.lastXY = South

----------------------------------------------------------------------------
(* C7 *)

\* the loop of the call in progress has run to its end
LoopExhausted == pc = "loop" /\ consumed = Len(commands)

\* C7: move([]) changes nothing: position, facing and lastXYDirection are
\* what they were before the call, so on a fresh craft, whatever it was
\* constructed with, currentPosition equals initialPosition and
\* currentDirection equals initialDirection after move([]).
C7_EmptyListNoOp ==
    (LoopExhausted /\ commands = <<>>) =>
        /\ Now = hist[1]
        /\ calls = 1 =>
               /\ heap[ch.currentPosition] = heap[ch.initialPosition]
               /\ ch.currentDirection = ch.initialDirection

\* move([]) has run on a craft that an earlier call had moved and pitched
C7_Witness ==
    /\ LoopExhausted
    /\ commands = <<>>
    /\ calls = 2
    /\ Now.direction = Up
    /\ Now.position # heap[ch.initialPosition]
    /\ Now = hist[1]

----------------------------------------------------------------------------
(* C8 *)

\* C8: with no arguments the initial and current position are (0,0,0) and
\* the initial and current facing North; with a position p and a facing d,
\* initialPosition = currentPosition = p and initialDirection =
\* currentDirection = d.
C8_ConstructionDefaults ==
    Fresh =>
        LET p == IF args.inputPosition = undefined
                 THEN Pos(0, 0, 0) ELSE heap[args.inputPosition]
            d == IF args.inputDirection = undefined
                 THEN North ELSE args.inputDirection
        IN  /\ heap[ch.initialPosition] = p
            /\ heap[ch.currentPosition] = p
            /\ ch.initialDirection = d
            /\ ch.currentDirection = d

C8_Witness ==
    /\ Fresh
    /\ args.inputPosition # undefined
    /\ args.inputDirection = West
    /\ heap[ch.currentPosition] = Pos(3, 4, 5)
    /\ ch.currentDirection = West

----------------------------------------------------------------------------
(* C9 *)

\* C9: at construction lastXYDirection is North when the starting facing is
\* Up or Down and the starting facing otherwise; so a craft constructed
\* facing Up or Down faces West after a single l and East after a single r.
C9_SeedOfLastXY ==
    /\ Fresh =>
           ch.lastXYDirection =
               (IF ch.initialDirection \in Vertical
                THEN North ELSE ch.initialDirection)
    /\ ( /\ pc = "loop"
         /\ calls = 1
         /\ consumed >= 1
         /\ hist[1].direction \in Vertical )
       => /\ commands[1] = "l" => hist[2].direction = West
          /\ commands[1] = "r" => hist[2].direction = East

C9_Witness ==
    /\ pc = "loop"
    /\ calls = 1
    /\ consumed = 1
    /\ args.inputDirection = Down
    /\ commands[1] = "r"
    /\ Now.direction = East

----------------------------------------------------------------------------
(* C10 *)

\* C10: from any state, [f,b] and [b,f] return the position to its prior
\* value and leave the facing and lastXYDirection unchanged.
C10_ForwardBackwardInverse ==
    pc = "loop" =>
        \A k \in Applied :
            ( /\ k + 1 \in Applied
              /\ <<commands[k], commands[k + 1]>> \in {<<"f", "b">>, <<"b", "f">>} )
            => hist[k + 2] = hist[k]

\* [b,f] has run from the origin, stepping into the negative and back, with
\* the craft pitched and its last horizontal facing not the default
C10_Witness ==
    /\ pc = "loop"
    /\ commands = <<"b", "f">>
    /\ consumed = 2
    /\ hist[1].position = Pos(0, 0, 0)
    /\ hist[1].direction = Up
    /\ hist[1].lastXY = East
    /\ hist[2].position = Pos(0, 0, -1)
    /\ Now = hist[1]

----------------------------------------------------------------------------
(* C11 *)

\* commands k .. k+n-1 have been applied and are n times the turn c
TurnRun(k, n, c) ==
    /\ k + n - 1 \in Applied
    /\ \A j \in k..(k + n - 1) : commands[j] = c

\* C11: from any state, four consecutive l (likewise four consecutive r) give
\* lastXYDirection the value it had before them, leave the facing equal to
\* that value and the position unchanged; when the facing was horizontal
\* before, the whole state is unchanged; and 1, 2 or 3 identical turns do
\* not restore the facing.
C11_TurnPeriodFour ==
    pc = "loop" =>
        \A k \in Applied : \A c \in {"l", "r"} :
            /\ TurnRun(k, 4, c) =>
                   /\ hist[k + 4].lastXY = hist[k].lastXY
                   /\ hist[k + 4].direction = hist[k].lastXY
                   /\ hist[k + 4].position = hist[k].position
                   /\ hist[k].direction \in XYDirection => hist[k + 4] = hist[k]
            /\ \A n \in 1..3 :
                   TurnRun(k, n, c) =>
                       /\ hist[k + n].lastXY # hist[k].lastXY
                       /\ hist[k + n].direction # hist[k].direction

\* four l have run on a craft that was pitched Up with East as its last
\* horizontal facing, away from the origin
C11_Witness ==
    /\ pc = "loop"
    /\ TurnRun(1, 4, "l")
    /\ consumed = 4
    /\ hist[1].direction = Up
    /\ hist[1].lastXY = East
    /\ hist[1].position = Pos(3, 4, 6)
    /\ hist[2].direction = North
    /\ Now.direction = East
    /\ Now.position = Pos(3, 4, 6)

----------------------------------------------------------------------------
(* C12 *)

\* C12: from any state whose facing is horizontal, [l,r] and [r,l] leave the
\* facing, lastXYDirection and the position exactly as they were.
C12_LeftRightInverse ==
    pc = "loop" =>
        \A k \in Applied :
            ( /\ k + 1 \in Applied
              /\ <<commands[k], commands[k + 1]>> \in {<<"l", "r">>, <<"r", "l">>}
              /\ hist[k].direction \in XYDirection )
            => hist[k + 2] = hist[k]

\* [r,l] has run from West, through the wrap to North and back
C12_Witness ==
    /\ pc = "loop"
    /\ commands = <<"r", "l">>
    /\ consumed = 2
    /\ hist[1].direction = West
    /\ hist[2].direction = North
    /\ Now.direction = West
    /\ Now = hist[1]

----------------------------------------------------------------------------
(* C13 *)

\* what the specification's table gives for one of the six commands, on the
\* position, the facing and the last horizontal facing
Effect(snap, c) ==
    CASE c = "f" ->
             [snap EXCEPT !.position = Plus(@, UnitVector(snap.direction))]
      [] c = "b" ->
             [snap EXCEPT !.position = Minus(@, UnitVector(snap.direction))]
      [] c \in {"l", "r"} ->
             [snap EXCEPT !.direction = Rotated(snap.lastXY, c),
                          !.lastXY = Rotated(snap.lastXY, c),
                          !.seenXY = Rotated(snap.lastXY, c)]
      [] c = "u" -> [snap EXCEPT !.direction = Up]
      [] c = "d" -> [snap EXCEPT !.direction = Down]

\* C13: a symbol that is none of f, b, l, r, u, d is a no-op: no error, the
\* position, the facing and lastXYDirection stay, and the commands after it
\* in the same list are still applied.
C13_UnknownSymbolNoOp ==
    pc = "loop" =>
        \A k \in Applied :
            commands[k] \notin Commands =>
                /\ hist[k + 1] = hist[k]
                /\ \A j \in Applied :
                       (j > k /\ commands[j] \in Commands) =>
                           hist[j + 1] = Effect(hist[j], commands[j])
                /\ consumed < Len(commands) => ENABLED Iterate

\* [f,x,r] has run to its end: the r after the unknown symbol turned the craft
C13_Witness ==
    /\ pc = "loop"
    /\ commands = <<"f", "x", "r">>
    /\ consumed = 3
    /\ hist[1].direction = South
    /\ hist[3] = hist[2]
    /\ Now.direction = West
    /\ Now.position = Pos(3, 3, 5)

----------------------------------------------------------------------------
(* C14 *)

\* the loop body as a transition on what is read off the craft
Transition(snap, c) ==
    LET s == LoopBody(
                 [heap |-> [heap EXCEPT ![ch.currentPosition] = snap.position],
                  ch |-> [ch EXCEPT !.currentDirection = snap.direction,
                                    !.lastXYDirection = snap.lastXY]],
                 c)
    IN  Snapshot(s.heap, s.ch, Seen(s.ch.currentDirection, snap.seenXY))

RECURSIVE Fold(_, _)
\* the left fold of Transition over cs, from snap
Fold(snap, cs) ==
    IF cs = <<>> THEN snap ELSE Fold(Transition(snap, Head(cs)), Tail(cs))

\* the commands applied to the craft since construction, over its first two
\* calls
AppliedSoFar ==
    (IF calls = 2 THEN first ELSE <<>>) \o SubSeq(commands, 1, consumed)

\* C14: move applies the commands left to right, each completely before the
\* next: the state after move(cs) is the left fold of the single-command
\* transition over cs, and move(a) followed by move(b) ends in the state of
\* the single call move(a ++ b).
C14_MoveIsLeftFold ==
    (pc = "loop" /\ calls <= 2) => Now = Fold(born, AppliedSoFar)

\* move([f,r,f]) and then move([u,f,l]) have run on the default craft, which
\* is where the single call move([f,r,f,u,f,l]) of the tests ends
C14_Witness ==
    /\ LoopExhausted
    /\ calls = 2
    /\ first = <<"f", "r", "f">>
    /\ commands = <<"u", "f", "l">>
    /\ first \o commands \in Batches
    /\ born.position = Pos(0, 0, 0)
    /\ born.direction = North
    /\ Now.position = Pos(1, 1, 1)
    /\ Now.direction = North

----------------------------------------------------------------------------
(* C15 *)

\* C15: after any move calls, initialPosition and initialDirection are what
\* construction made them and the caller's position object is unchanged:
\* the current position is an object of its own, neither the initial
\* snapshot nor the caller's input.
C15_InitialStateImmutable ==
    /\ heap[ch.initialPosition] = born.position
    /\ ch.initialDirection = born.direction
    /\ heap["input"] = args.inputValue
    /\ ch.currentPosition # ch.initialPosition
    /\ ch.currentPosition # args.inputPosition
    /\ ch.initialPosition # args.inputPosition

\* two calls have moved and turned a craft constructed from the caller's
\* object (3,4,5)
C15_Witness ==
    /\ pc = "idle"
    /\ calls = 2
    /\ args.inputPosition = "input"
    /\ heap["input"] = Pos(3, 4, 5)
    /\ heap[ch.initialPosition] = Pos(3, 4, 5)
    /\ heap[ch.currentPosition] = Pos(2, 4, 6)
    /\ ch.currentDirection # ch.initialDirection

----------------------------------------------------------------------------
(* C16 *)

\* C16: in every reachable state lastXYDirection is one of North, East,
\* South, West, never Up or Down.
C16_LastXYIsHorizontal == ch.lastXYDirection \in XYDirection

\* a craft constructed facing Up, turned to West and pitched Down
C16_Witness ==
    /\ args.inputDirection = Up
    /\ calls >= 1
    /\ ch.currentDirection = Down
    /\ ch.lastXYDirection = West

----------------------------------------------------------------------------
(* C17 *)

\* C17: in every reachable state lastXYDirection is the most recent
\* horizontal value the facing has had since construction, or North if it
\* has had none; so whenever the facing is horizontal, lastXYDirection
\* equals it.
C17_LastXYIsLatestHorizontal ==
    /\ ch.lastXYDirection = (IF seenXY = Never THEN North ELSE seenXY)
    /\ ch.currentDirection \in XYDirection =>
           ch.lastXYDirection = ch.currentDirection

\* a craft constructed facing East has turned to South and pitched since
C17_Witness ==
    /\ born.direction = East
    /\ pc = "loop"
    /\ consumed >= 1
    /\ commands[consumed] = "u"
    /\ ch.currentDirection = Up
    /\ seenXY = South
    /\ ch.lastXYDirection = South

----------------------------------------------------------------------------
(* C18 *)

\* a state of the craft that is no error: integer coordinates, one of the six
\* facings, a horizontal last facing
WellFormed(snap) ==
    /\ snap.position.x \in Int
    /\ snap.position.y \in Int
    /\ snap.position.z \in Int
    /\ snap.direction \in Direction
    /\ snap.lastXY \in XYDirection

\* the craft new Chayndrayan makes of the recorded arguments
Constructed ==
    LET s == Constructor([r \in Refs |-> IF r = "input" THEN args.inputValue
                                         ELSE Unallocated],
                         args.inputPosition, args.inputDirection)
    IN  Snapshot(s.heap, s.ch, Seen(s.ch.currentDirection, Never))

----------------------------------------------------------------------------
(* C19 *)

\* the coordinate a facing moves along
Axis(d) ==
    CASE d \in {North, South} -> "y"
      [] d \in {East, West} -> "x"
      [] d \in {Up, Down} -> "z"

\* the coordinates in which p and q differ
Changed(p, q) == {a \in {"x", "y", "z"} : p[a] # q[a]}

\* C19: the craft never moves diagonally and is never blocked or clamped:
\* every f or b changes exactly one coordinate, by exactly 1, whatever the
\* coordinates are (also from 0 into the negative), and that coordinate is
\* the axis of the current facing even when lastXYDirection names another.
C19_OneAxisOneStep ==
    pc = "loop" =>
        \A k \in Applied :
            commands[k] \in {"f", "b"} =>
                LET p == hist[k].position
                    q == hist[k + 1].position
                    a == Axis(hist[k].direction)
                IN  /\ Changed(p, q) = {a}
                    /\ q[a] - p[a] \in {1, -1}

\* a b while pitched Up, with East as last horizontal facing, took z from 0
\* to -1
C19_Witness ==
    /\ pc = "loop"
    /\ consumed >= 1
    /\ commands[consumed] = "b"
    /\ hist[consumed].direction = Up
    /\ hist[consumed].lastXY = East
    /\ hist[consumed].position = Pos(0, 0, 0)
    /\ Now.position = Pos(0, 0, -1)

----------------------------------------------------------------------------
(* C20 *)

\* C20: every command changes the position or the orientation, never both:
\* f and b leave the facing and lastXYDirection unchanged; l, r, u and d
\* leave the three coordinates unchanged.
C20_PositionOrOrientation ==
    pc = "loop" =>
        \A k \in Applied :
            /\ commands[k] \in {"f", "b"} =>
                   /\ hist[k + 1].direction = hist[k].direction
                   /\ hist[k + 1].lastXY = hist[k].lastXY
            /\ commands[k] \in {"l", "r", "u", "d"} =>
                   hist[k + 1].position = hist[k].position

\* an f while pitched Down, with West as last horizontal facing, moved the
\* craft and left both facings
C20_Witness ==
    /\ pc = "loop"
    /\ consumed >= 1
    /\ commands[consumed] = "f"
    /\ hist[consumed].direction = Down
    /\ hist[consumed].lastXY = West
    /\ Now.position = Minus(hist[consumed].position, Pos(0, 0, 1))
    /\ Now.direction = Down
    /\ Now.lastXY = West

----------------------------------------------------------------------------
(* C21 *)

\* the four loops of a move and a turn, four times over
CircleLoops ==
    { <<m, t, m, t, m, t, m, t>> : m \in {"f", "b"}, t \in {"l", "r"} }

\* C21: from any position and any horizontal starting facing, each of
\* [f,l,f,l,f,l,f,l], [f,r,f,r,f,r,f,r], [b,l,b,l,b,l,b,l] and
\* [b,r,b,r,b,r,b,r] returns the craft to its starting position and its
\* starting facing.
C21_CircleLoopsReturn ==
    ( /\ LoopExhausted
      /\ commands \in CircleLoops
      /\ hist[1].direction \in XYDirection )
    => /\ Now.position = hist[1].position
       /\ Now.direction = hist[1].direction

\* [b,r,b,r,b,r,b,r] has run from (3,4,5) facing South, through (4,5,5),
\* its far corner
C21_Witness ==
    /\ LoopExhausted
    /\ commands = <<"b", "r", "b", "r", "b", "r", "b", "r">>
    /\ hist[1].position = Pos(3, 4, 5)
    /\ hist[1].direction = South
    /\ hist[5].position = Pos(4, 5, 5)
    /\ hist[5].direction = North
    /\ Now.position = Pos(3, 4, 5)
    /\ Now.direction = South

----------------------------------------------------------------------------
(* C22 *)

\* the facing on the same axis, the other way
Opposite(d) ==
    CASE d = North -> South
      [] d = South -> North
      [] d = East -> West
      [] d = West -> East
      [] d = Up -> Down
      [] d = Down -> Up

PitchAndMove == {<<"u", "f">>, <<"d", "b">>, <<"u", "b">>, <<"d", "f">>}

\* the list the specification pairs with a list of a pitch and a move
Counterpart(cs) ==
    CASE cs = <<"u", "f">> -> <<"d", "b">>
      [] cs = <<"d", "b">> -> <<"u", "f">>
      [] cs = <<"u", "b">> -> <<"d", "f">>
      [] cs = <<"d", "f">> -> <<"u", "b">>

\* C22: forward along a facing is the displacement of backward along the
\* opposite facing: from any state [u,f] and [d,b] end at the same position,
\* so do [u,b] and [d,f]; [u,f,d,f] leaves the position where it started,
\* and so does [f,r,r,f] from any state whose facing is horizontal.
C22_OppositeFacings ==
    pc = "loop" =>
        /\ \A k \in Applied :
               commands[k] = "f" =>
                   hist[k + 1].position =
                       Transition([hist[k] EXCEPT !.direction = Opposite(@)],
                                  "b").position
        /\ (LoopExhausted /\ commands \in PitchAndMove)
           => Now.position = Fold(hist[1], Counterpart(commands)).position
        /\ (LoopExhausted /\ commands = <<"u", "f", "d", "f">>)
           => Now.position = hist[1].position
        /\ ( /\ LoopExhausted
             /\ commands = <<"f", "r", "r", "f">>
             /\ hist[1].direction \in XYDirection )
           => Now.position = hist[1].position

\* [d,b] has run from (3,4,5) facing South and ended at (3,4,6), where [u,f]
\* ends too
C22_Witness ==
    /\ LoopExhausted
    /\ commands = <<"d", "b">>
    /\ hist[1].position = Pos(3, 4, 5)
    /\ hist[1].direction = South
    /\ Now.position = Pos(3, 4, 6)
    /\ Fold(hist[1], <<"u", "f">>).position = Pos(3, 4, 6)
    /\ Fold(hist[1], <<"u", "f">>).direction # Now.direction

----------------------------------------------------------------------------
(* C23 *)

\* positions a second craft is constructed at
TwinPositions == {Unallocated, Pos(3, 4, 5), Pos(4, 6, 8)}

\* the craft new Chayndrayan makes of the position p (none when Unallocated)
\* and the recorded facing
Twin(p) ==
    LET s == Constructor([r \in Refs |-> IF r = "input" THEN p
                                         ELSE Unallocated],
                         IF p = Unallocated THEN undefined ELSE "input",
                         args.inputDirection)
    IN  Snapshot(s.heap, s.ch, Seen(s.ch.currentDirection, Never))

\* C23: the effect of a command sequence does not depend on the starting
\* position: a second craft constructed with the same facing at another
\* position q and given the same commands has, after every command, the
\* same facing and lastXYDirection, and its position differs from this
\* craft's by exactly q - p, p being where this craft was constructed.
C23_TranslationIndependence ==
    (pc = "loop" /\ calls <= 2) =>
        \A q \in TwinPositions :
            LET twin == Fold(Twin(q), AppliedSoFar)
            IN  /\ twin.direction = Now.direction
                /\ twin.lastXY = Now.lastXY
                /\ Minus(twin.position, Now.position) =
                       Minus(Twin(q).position, born.position)

\* [f,r,f,u,f,l] has run on a craft constructed at the origin facing North
\* and ended at (1,1,1); from (4,6,8) it ends at (5,7,9)
C23_Witness ==
    /\ LoopExhausted
    /\ calls = 1
    /\ commands = <<"f", "r", "f", "u", "f", "l">>
    /\ born.position = Pos(0, 0, 0)
    /\ born.direction = North
    /\ Now.position = Pos(1, 1, 1)
    /\ Now.direction = North
    /\ Fold(Twin(Pos(4, 6, 8)), commands).position = Pos(5, 7, 9)

----------------------------------------------------------------------------
(* C24 *)

\* how many elements of cs are in S
Count(cs, S) == Cardinality({k \in DOMAIN cs : cs[k] \in S})

RECURSIVE RotatedBy(_, _)
\* d turned clockwise n times
RotatedBy(d, n) == IF n = 0 THEN d ELSE RotatedBy(Clockwise(d), n - 1)

\* C24: pitch commands do not disturb the turn sequence: after any command
\* sequence lastXYDirection is its construction-time seed rotated clockwise
\* by (number of r minus number of l) mod 4, however many u, d, f or b are
\* interleaved.
C24_TurnCountDecidesLastXY ==
    (pc = "loop" /\ calls <= 2) =>
        Now.lastXY =
            RotatedBy(born.lastXY,
                      (Count(AppliedSoFar, {"r"}) - Count(AppliedSoFar, {"l"})) % 4)

\* [u,l] and then [u,f,l] have run on a craft constructed facing West: two l
\* and no r, with pitches and a move between them, give East
C24_Witness ==
    /\ LoopExhausted
    /\ calls = 2
    /\ first = <<"u", "l">>
    /\ commands = <<"u", "f", "l">>
    /\ born.lastXY = West
    /\ hist[3].direction = Up
    /\ Now.lastXY = East

----------------------------------------------------------------------------
(* C25 *)

\* C25: move on a command list of length n terminates after consuming
\* exactly n commands, one loop iteration per command: a call in progress
\* has made as many iterations as it has consumed commands, never more than
\* n; while commands are left the next one can be consumed, whatever the
\* state; the call returns only when all n are consumed; and every call
\* gets to that point and returns.
C25_MoveTerminates ==
    /\ [](pc = "loop" =>
              /\ consumed <= Len(commands)
              /\ Len(hist) = consumed + 1
              /\ consumed < Len(commands) => ENABLED Iterate)
    /\ [][Iterate => consumed' = consumed + 1]_vars
    /\ [][(pc = "loop" /\ pc' = "idle") => consumed = Len(commands)]_vars
    /\ (pc = "loop") ~> LoopExhausted
    /\ LoopExhausted ~> (pc = "idle")

\* [x,u,x,b], with its two unknown symbols, has been consumed in four
\* iterations, and the call has not returned yet
C25_Witness ==
    /\ LoopExhausted
    /\ calls = 1
    /\ commands = <<"x", "u", "x", "b">>
    /\ Len(hist) = 5
    /\ Now.position = Minus(born.position, Pos(0, 0, 1))

----------------------------------------------------------------------------
(* C26 *)

Abs(n) == IF n < 0 THEN -n ELSE n

\* the Manhattan distance between two positions
Manhattan(p, q) == Abs(p.x - q.x) + Abs(p.y - q.y) + Abs(p.z - q.z)

\* C26: after any command sequence containing m commands from {f, b}, the
\* Manhattan distance between currentPosition and initialPosition is at most
\* m and has the parity of m.
C26_ManhattanBound ==
    (pc = "loop" /\ calls <= 2) =>
        LET m == Count(AppliedSoFar, {"f", "b"})
            dist == Manhattan(heap[ch.currentPosition], heap[ch.initialPosition])
        IN  /\ dist <= m
            /\ dist % 2 = m % 2

\* [f,b] and then [d,f]: three moves, two of which cancel, leave the craft
\* at distance 1
C26_Witness ==
    /\ LoopExhausted
    /\ calls = 2
    /\ first = <<"f", "b">>
    /\ commands = <<"d", "f">>
    /\ Count(AppliedSoFar, {"f", "b"}) = 3
    /\ heap[ch.initialPosition] = Pos(3, 4, 5)
    /\ heap[ch.currentPosition] = Pos(3, 4, 4)

----------------------------------------------------------------------------
(* C27 *)

Pitches == {"u", "d"}

\* C27: among consecutive pitch commands only the last one counts: from any
\* state [u,u] ends in the state [u] ends in, [d,d] as [d], [u,d] as [d]
\* and [d,u] as [u].
C27_LastPitchCounts ==
    pc = "loop" =>
        \A k \in Applied :
            ( /\ k + 1 \in Applied
              /\ commands[k] \in Pitches
              /\ commands[k + 1] \in Pitches )
            => hist[k + 2] = Transition(hist[k], commands[k + 1])

\* [d,u] has run from (3,4,5) facing West and ended facing Up with West
\* still the last horizontal facing, as a single u does
C27_Witness ==
    /\ LoopExhausted
    /\ commands = <<"d", "u">>
    /\ hist[1].position = Pos(3, 4, 5)
    /\ hist[1].direction = West
    /\ hist[2].direction = Down
    /\ Now.direction = Up
    /\ Now.lastXY = West
    /\ Now = Fold(hist[1], <<"u">>)

----------------------------------------------------------------------------
(* C28 *)

Turns == {"l", "r"}

\* C28: in the turn branch the index lookup never misses: in every
\* reachable state clockWiseDirections.indexOf(lastXYDirection) is in 0..3,
\* never -1, and for l as for r updatedIndex = (currentIndex + step + 4) % 4
\* is in 0..3, so that the new lastXYDirection is a defined element of the
\* cycle; every turn that is executed stores that element.
C28_IndexLookupNeverMisses ==
    LET currentIndex == indexOf(clockWiseDirections, ch.lastXYDirection)
    IN  /\ currentIndex \in 0..3
        /\ \A c \in Turns :
               LET updatedIndex == UpdatedIndex(currentIndex, Step(c))
               IN  /\ updatedIndex \in 0..3
                   /\ updatedIndex = (currentIndex + Step(c) + 4) % 4
                   /\ at(clockWiseDirections, updatedIndex) # undefined
                   /\ at(clockWiseDirections, updatedIndex) \in XYDirection
        /\ (pc = "loop" /\ consumed >= 1 /\ commands[consumed] \in Turns) =>
               ch.lastXYDirection =
                   at(clockWiseDirections,
                      UpdatedIndex(indexOf(clockWiseDirections,
                                           hist[consumed].lastXY),
                                   Step(commands[consumed])))

\* an l executed with lastXYDirection North: index 0, step -1, updated
\* index 3, West
C28_Witness ==
    /\ pc = "loop"
    /\ consumed >= 1
    /\ commands[consumed] = "l"
    /\ hist[consumed].lastXY = North
    /\ indexOf(clockWiseDirections, hist[consumed].lastXY) = 0
    /\ UpdatedIndex(0, Step("l")) = 3
    /\ ch.lastXYDirection = West

----------------------------------------------------------------------------
(* C29 *)

\* the earlier loop body as a transition on what is read off the craft
EarlierTransition(snap, c) ==
    LET s == EarlierLoopBody(
                 [heap |-> [heap EXCEPT ![ch.currentPosition] = snap.position],
                  ch |-> [ch EXCEPT !.currentDirection = snap.direction,
                                    !.lastXYDirection = snap.lastXY]],
                 c)
    IN  Snapshot(s.heap, s.ch, Seen(s.ch.currentDirection, snap.seenXY))

RECURSIVE EarlierFold(_, _)
\* the earlier move: the left fold of EarlierTransition over cs, from snap
EarlierFold(snap, cs) ==
    IF cs = <<>> THEN snap
    ELSE EarlierFold(EarlierTransition(snap, Head(cs)), Tail(cs))

\* the commands of the call in progress applied so far are all f, b, l or r
OverMovesAndTurns ==
    \A k \in Applied : commands[k] \in {"f", "b", "l", "r"}

\* position, facing and lastXYDirection agree
SameCraft(a, b) ==
    /\ a.position = b.position
    /\ a.direction = b.direction
    /\ a.lastXY = b.lastXY

\* The two moves on the first call of a craft, with `signed` the facings on
\* which they are said to part: equal results on a sequence over f, b, l, r
\* with no f or b executed on a signed facing, and on every f or b executed
\* on a signed facing the earlier move adds delta to the coordinate where
\* the final one subtracts it.
EarlierAgainstFinal(signed) ==
    (pc = "loop" /\ calls = 1) =>
        /\ ( /\ OverMovesAndTurns
             /\ \A k \in Applied :
                    commands[k] \in {"f", "b"} =>
                        hist[k].direction \notin signed )
           => SameCraft(EarlierFold(born, SubSeq(commands, 1, consumed)), Now)
        /\ \A k \in Applied :
               (commands[k] \in {"f", "b"} /\ hist[k].direction \in signed) =>
                   LET a == Axis(hist[k].direction)
                       e == EarlierTransition(hist[k], commands[k])
                   IN  /\ e.position[a] = hist[k].position[a] + Delta(commands[k])
                       /\ hist[k + 1].position[a] =
                              hist[k].position[a] - Delta(commands[k])
                       /\ e.position # hist[k + 1].position
                       /\ e.direction = hist[k + 1].direction
                       /\ e.lastXY = hist[k + 1].lastXY

\* C29 as stated: the earlier move of src/main.ts (three axis branches, no
\* u/d handling) and the final move end in the same position, facing and
\* lastXYDirection on every command sequence over {f,b,l,r} in which no f or
\* b is executed while the craft faces South or West; on an f or b executed
\* facing South or West the two differ, the earlier one applying +delta
\* where the final one applies -delta.
C29_Original == EarlierAgainstFinal({South, West})

\* C29, amended: the same with Down beside South and West: the two moves
\* end in the same position, facing and lastXYDirection on every command
\* sequence over {f,b,l,r} in which no f or b is executed while the craft
\* faces South, West or Down (a craft can be constructed facing Down), and
\* on an f or b executed facing South, West or Down the earlier one applies
\* +delta where the final one applies -delta.
C29_EarlierMoveAgrees == EarlierAgainstFinal({South, West, Down})

\* [f,r,f] has run on a craft constructed at (3,4,5) facing Up: both moves
\* climb, turn to East and advance, to (4,4,6)
C29_Witness ==
    /\ LoopExhausted
    /\ calls = 1
    /\ commands = <<"f", "r", "f">>
    /\ born.position = Pos(3, 4, 5)
    /\ born.direction = Up
    /\ Now.position = Pos(4, 4, 6)
    /\ Now.direction = East
    /\ EarlierFold(born, commands).position = Pos(4, 4, 6)

====
